---- MODULE Spec2Model ----
(***************************************************************************)
(* Tea Haven marketplace backend: the order checkout of OrdersService      *)
(* (orders.service.ts) against the relational store, and the notification  *)
(* fan-out of EmailService.                                                *)
(*                                                                         *)
(* OrdersService.create runs its callback in prisma.$transaction without   *)
(* an isolationLevel option, so the store runs it at its default level     *)
(* (PostgreSQL: READ COMMITTED): a read sees the rows committed so far, a  *)
(* write is private to the transaction until COMMIT, an UPDATE takes the   *)
(* row lock until the transaction ends, and a lock cycle is broken by      *)
(* aborting one of the transactions.                                       *)
(*                                                                         *)
(* Money is fixed-point with two fractional digits (DECIMAL(10,2)); it is  *)
(* modelled as an integer number of cents.                                 *)
(*                                                                         *)
(* The specifications share the state: Spec (checkout calls with any       *)
(* caller and body), SpecOrders (well-formed checkouts followed by         *)
(* OrdersService.updateStatus and ProductsService.update calls),           *)
(* SpecAbandon (checkouts abandoned before their commit), SpecStock        *)
(* (checkouts beside the seller's updateStock, update and create),         *)
(* SpecAuth (AuthService.login, refreshToken, logout and changePassword),  *)
(* SpecRegister (AuthService.register), SpecFrontend (the token refresh of *)
(* the browser's AuthProvider) and SpecCart (cartReducer).                 *)
(***************************************************************************)
EXTENDS Integers, Sequences, FiniteSets, TLC

\* ----- bounds --------------------------------------------------------------
NumCalls == 2     \* checkout calls in one behaviour
MaxItems == 2     \* entries of dto.items
MaxQty   == 3     \* largest quantity of one entry
MaxAttempts == 2  \* times a caller submits one checkout (the call and its retries)
MaxMaintCalls == 2  \* updateStatus and product update calls in one behaviour
MaxTokens == 3      \* refresh tokens AuthService signs in one behaviour
NumRegs == 2        \* AuthService.register calls in one behaviour
NumRefresh == 2     \* AuthService.refreshToken calls in one behaviour
MaxStockCalls == 1  \* seller stock calls (updateStock, update, create) in one behaviour
NumRequests == 3    \* API requests the browser sends in one behaviour
MaxCartQty == 3     \* largest quantity of one cart item

\* ----- seed data (rows that pre-exist: users and products) ------------------
\* users 1 and 2 are sellers, user 3 is the customer
SellerIds   == {1, 2}
CustomerIds == {3}
UserIds     == SellerIds \cup CustomerIds

\* users.email, unique by the index users_email_key
Email == [u \in UserIds |-> CASE u = 1 -> "orders@sellers.dev"
                             [] u = 2 -> "second@sellers.dev"
                             [] OTHER -> "shopper@teahaven.dev"]

\* seeded products: stock and price (in cents: 12.50 and 7.25)
SeedStock == <<5, 2>>
SeedPrice == <<1250, 725>>
ProductIds == 1..Len(SeedStock)
\* ids a request can name: the products and one id that has no row
RequestIds == 1..(Len(SeedStock) + 1)

Roles == {"CUSTOMER", "SELLER"}

\* users.role of the seeded users
RoleOf == [u \in UserIds |-> IF u \in SellerIds THEN "SELLER" ELSE "CUSTOMER"]

\* the enum OrderStatus
OrderStatuses == {"PENDING", "PROCESSING", "SHIPPED", "DELIVERED"}

\* prices (in cents) a seller changes a product to: 9.99
NewPrices == {999}

Calls == 1..NumCalls

\* request bodies of POST /orders, the malformed ones included: an empty
\* items list, a quantity of 0 or -1
OrderItemDtos == [productId : RequestIds, quantity : (-1)..MaxQty]
ItemLists == UNION {[1..n -> OrderItemDtos] : n \in 0..MaxItems}

\* values of dto.shippingAddress (@IsString, @IsNotEmpty)
Addresses == {"12 Camellia Road"}

NoOrder == [id |-> 0]

\* no call made yet
NoCall == [fn |-> ""]

\* register calls, and the ids of the seeded users and of the rows they insert
RegCalls == 1..NumRegs
RefreshCalls == 1..NumRefresh
AllUserIds == 1..(Cardinality(UserIds) + NumRegs)

\* registerDto.email: a text with or without blanks before and after it
EmailTexts == {"shopper@teahaven.dev", "Shopper@TeaHaven.dev",
               "new@teahaven.dev", "NEW@teahaven.dev", "guest@teahaven.dev"}
RawEmails == [lead : BOOLEAN, text : EmailTexts, trail : BOOLEAN]

\* users.refreshToken when it is null
NullHash == [null |-> TRUE]

\* no refresh token in a request or a response
NoToken == [sub |-> 0, jti |-> 0]

VARIABLES
  products,     \* committed rows of "products": id -> [stock, isActive, price, sellerId]
  orders,       \* committed rows of "orders" with their order_items, in commit order
  nextOrderId,  \* the sequence behind orders.id
  locks,        \* row locks on products: id -> holding call, 0 when free
  tx,           \* each call's transaction: "none", "open", "committed", "rolledback"
  pc,           \* each call's position in OrdersService.create
  req,          \* each call's arguments: [customerId, role, items]
  snap,         \* each call's result of tx.product.findMany (productMap)
  txOrder,      \* the order a call inserted in its open transaction
  txWrites,     \* the product rows a call updated in its open transaction
  pending,      \* product ids whose tx.product.update a call has not issued yet
  err,          \* the exception a call ended with, "" when none
  attempt,      \* how many times the caller has submitted the checkout of a call
  outbox,       \* invocations of the EmailService senders, in order
  statusCall,   \* the last updateStatus or updateStock call: its arguments and outcome
  maintCalls,   \* updateStatus and ProductsService calls made so far
  created,      \* rows of "products" inserted by ProductsService.create
  restocked,    \* products a seller has given a positive stock
  refreshHash,  \* users.refreshToken: user id -> the stored hash, NullHash when null
  issued,       \* the refresh tokens AuthService has signed so far
  authCall,     \* the last AuthService call: its arguments and outcome
  registered,   \* rows of "users" inserted by register, in insertion order
  reg,          \* each register call: its position, argument and outcome
  refresh,      \* each refreshToken call: its position and the token presented
  authState,    \* AuthProvider's React state: accessToken, refreshToken, user (0 is null)
  authRefs,     \* accessTokenRef, refreshTokenRef and userRef
  refreshPromiseRef,  \* refreshPromiseRef.current: a position in promises, 0 when null
  promises,     \* the promises performRefresh created, in order
  inFlight,     \* the promises whose POST /auth/refresh has no response yet
  requests,     \* each API request: its position, _retry flag and sends
  cart,         \* CartState.items
  cartAction    \* the last action dispatched to cartReducer

\* what the order and product maintenance calls add to the state
statusVars == <<statusCall, maintCalls, created, restocked>>

\* the state of AuthService
regVars == <<registered, reg, refresh>>

\* the browser: AuthProvider and the cart
frontVars == <<authState, authRefs, refreshPromiseRef, promises, inFlight, requests>>

cartVars == <<cart, cartAction>>

clientVars == <<frontVars, cartVars>>

authVars == <<refreshHash, issued, authCall, regVars, clientVars>>

vars == <<products, orders, nextOrderId, locks, tx, pc, req, snap, txOrder,
          txWrites, pending, err, attempt, outbox, statusVars, authVars>>

\* ----- pure helpers of OrdersService.create ---------------------------------

\* the keys of productQuantities, in Map insertion order (first appearance)
RECURSIVE KeysOf(_)
KeysOf(items) ==
  IF items = <<>> THEN <<>>
  ELSE LET n    == Len(items)
           init == KeysOf(SubSeq(items, 1, n - 1))
           id   == items[n].productId
       IN IF \E k \in 1..Len(init) : init[k] = id THEN init ELSE Append(init, id)

\* productQuantities.get(productId) after the forEach: the running sum
RECURSIVE QuantityOfMutant(_, _)
QuantityOfMutant(items, productId) ==
  IF items = <<>> THEN 0
  ELSE LET n    == Len(items)
           rest == QuantityOfMutant(SubSeq(items, 1, n - 1), productId)
       IN IF items[n].productId = productId THEN items[n].quantity ELSE rest

RECURSIVE QuantityOf(_, _)
QuantityOf(items, productId) ==
  IF items = <<>> THEN 0
  ELSE LET n    == Len(items)
           rest == QuantityOf(SubSeq(items, 1, n - 1), productId)
       IN IF items[n].productId = productId THEN rest + items[n].quantity ELSE rest

KeySet(items) == {items[k].productId : k \in 1..Len(items)}

\* tx.product.findMany({ where: { id: { in: productIds }, isActive: true } })
\* the rows found, as productMap: id -> row
FindManyMutant(ids, rows) ==
  [p \in {q \in ids \cap DOMAIN rows : TRUE} |-> rows[p]]

FindMany(ids, rows) ==
  [p \in {q \in ids \cap DOMAIN rows : rows[q].isActive} |-> rows[p]]

\* products.length !== productIds.length
NotFound(items, productMap) ==
  Cardinality(DOMAIN productMap) # Len(KeysOf(items))

\* the validation loop: some aggregated quantity exceeds the stock read
InsufficientStockMutant(items, productMap) ==
  \E k \in 1..Len(items) :
     /\ items[k].productId \in DOMAIN productMap
     /\ productMap[items[k].productId].stock < items[k].quantity

InsufficientStock(items, productMap) ==
  \E p \in KeySet(items) :
     /\ p \in DOMAIN productMap
     /\ productMap[p].stock < QuantityOf(items, p)

\* createItems with one line per key of productQuantities
CreateItemsMerged(items, productMap) ==
  [k \in 1..Len(KeysOf(items)) |->
     [productId |-> KeysOf(items)[k],
      quantity  |-> QuantityOf(items, KeysOf(items)[k]),
      unitPrice |-> productMap[KeysOf(items)[k]].price,
      sellerId  |-> productMap[KeysOf(items)[k]].sellerId]]

\* createItems: one line per entry of dto.items, unitPrice = product.price
CreateItems(items, productMap) ==
  [k \in 1..Len(items) |->
     [productId |-> items[k].productId,
      quantity  |-> items[k].quantity,
      unitPrice |-> productMap[items[k].productId].price,
      sellerId  |-> productMap[items[k].productId].sellerId]]

\* total = total.add(unitPrice.mul(item.quantity)), from Decimal(0)
RECURSIVE TotalOfMutant(_, _)
TotalOfMutant(items, productMap) ==
  IF items = <<>> THEN 0
  ELSE LET n == Len(items)
       IN TotalOfMutant(SubSeq(items, 1, n - 1), productMap)
            + productMap[items[n].productId].price

RECURSIVE TotalOf(_, _)
TotalOf(items, productMap) ==
  IF items = <<>> THEN 0
  ELSE LET n == Len(items)
       IN TotalOf(SubSeq(items, 1, n - 1), productMap)
            + productMap[items[n].productId].price * items[n].quantity

\* the data of tx.product.update for one aggregated pair
StockWriteMutant(product, quantity) ==
  [product EXCEPT !.stock = product.stock - quantity]

StockWrite(product, quantity) ==
  LET remainingStock == product.stock - quantity
  IN [product EXCEPT !.stock = remainingStock, !.isActive = remainingStock > 0]

\* the exception of the validation part of the callback, "" when it passes
ValidationErrorMutant(items, rows) ==
  LET productMap == FindMany(KeySet(items), rows)
  IN IF InsufficientStock(items, productMap) THEN "InsufficientStock"
     ELSE IF NotFound(items, productMap) THEN "NotFound"
     ELSE ""

ValidationError(items, rows) ==
  LET productMap == FindMany(KeySet(items), rows)
  IN IF NotFound(items, productMap) THEN "NotFound"
     ELSE IF InsufficientStock(items, productMap) THEN "InsufficientStock"
     ELSE ""

\* the global ValidationPipe on CreateOrderDto: @ArrayMinSize(1) on items,
\* @IsInt() @IsPositive() on productId and quantity; TRUE when the body passes
ValidDtoMutant(items) == TRUE

ValidDto(items) ==
  /\ Len(items) >= 1
  /\ \A k \in 1..Len(items) :
        /\ items[k].productId \in Nat /\ items[k].productId > 0
        /\ items[k].quantity \in Nat /\ items[k].quantity > 0

\* ensureCustomer: TRUE when it throws
EnsureCustomerMutant(role) == FALSE

EnsureCustomer(role) == role # "CUSTOMER"

\* ----- pure helpers of EmailService ------------------------------------------

\* buildOrderSummary: per item the seller's email and the item summary
BuildOrderSummary(order) ==
  [id       |-> order.id,
   customer |-> Email[order.customerId],
   items    |-> [k \in 1..Len(order.items) |->
                   [seller  |-> Email[order.items[k].sellerId],
                    summary |-> [productId |-> order.items[k].productId,
                                 quantity  |-> order.items[k].quantity,
                                 unitPrice |-> order.items[k].unitPrice]]]]

\* the keys of sellerGroups, in Map insertion order
RECURSIVE GroupKeys(_)
GroupKeys(items) ==
  IF items = <<>> THEN <<>>
  ELSE LET n    == Len(items)
           init == GroupKeys(SubSeq(items, 1, n - 1))
           e    == items[n].seller
       IN IF \E k \in 1..Len(init) : init[k] = e THEN init ELSE Append(init, e)

\* sellerGroups.get(email).items: the summaries pushed for that email, in order
RECURSIVE GroupItems(_, _)
GroupItems(items, email) ==
  IF items = <<>> THEN <<>>
  ELSE LET n    == Len(items)
           init == GroupItems(SubSeq(items, 1, n - 1), email)
       IN IF items[n].seller = email THEN Append(init, items[n].summary) ELSE init

\* the this.send calls of sendSellerNotification: one per entry of sellerGroups
SellerSendsMutant(summary) ==
  [k \in 1..Len(summary.items) |->
     [to |-> summary.items[k].seller, items |-> <<summary.items[k].summary>>]]

SellerSends(summary) ==
  LET keys == GroupKeys(summary.items)
  IN [k \in 1..Len(keys) |->
        [to |-> keys[k], items |-> GroupItems(summary.items, keys[k])]]

\* the this.send call of sendOrderConfirmation
ConfirmationSends(summary) ==
  << [to |-> summary.customer,
      items |-> [k \in 1..Len(summary.items) |-> summary.items[k].summary]] >>

\* ----- the store's lock wait graph -------------------------------------------

\* the call whose row lock call c is waiting for, 0 when c is not waiting
WaitsFor(c) ==
  IF pc[c] = "update" /\ pending[c] # <<>> /\ locks[Head(pending[c])] \notin {0, c}
  THEN locks[Head(pending[c])] ELSE 0

RECURSIVE WaitChain(_, _)
WaitChain(c, n) ==
  IF n = 0 \/ c = 0 THEN c ELSE WaitChain(WaitsFor(c), n - 1)

Deadlocked(c) == \E n \in 1..NumCalls : WaitChain(c, n) = c

ReleaseLocks(c) == [p \in ProductIds |-> IF locks[p] = c THEN 0 ELSE locks[p]]

\* ----- initial state ---------------------------------------------------------

Init ==
  /\ \E s2 \in SellerIds :
       products = [p \in ProductIds |->
                     [stock    |-> SeedStock[p],
                      isActive |-> SeedStock[p] > 0,
                      price    |-> SeedPrice[p],
                      sellerId |-> IF p = 1 THEN 1 ELSE s2]]
  /\ orders = <<>>
  /\ nextOrderId = 1
  /\ locks = [p \in ProductIds |-> 0]
  /\ tx = [c \in Calls |-> "none"]
  /\ pc = [c \in Calls |-> "idle"]
  /\ req = [c \in Calls |-> [customerId |-> 0, role |-> "", shippingAddress |-> "",
                             items |-> <<>>]]
  /\ snap = [c \in Calls |-> <<>>]
  /\ txOrder = [c \in Calls |-> NoOrder]
  /\ txWrites = [c \in Calls |-> <<>>]
  /\ pending = [c \in Calls |-> <<>>]
  /\ err = [c \in Calls |-> ""]
  /\ attempt = [c \in Calls |-> 0]
  /\ outbox = <<>>
  /\ statusCall = NoCall
  /\ maintCalls = 0
  /\ created = <<>>
  /\ restocked = {}
  /\ refreshHash = [u \in AllUserIds |-> NullHash]
  /\ registered = <<>>
  /\ reg = [r \in RegCalls |-> [pc |-> "idle", email |-> "", err |-> ""]]
  /\ refresh = [k \in RefreshCalls |-> [pc |-> "idle", token |-> NoToken]]
  /\ issued = {}
  /\ authCall = NoCall
  /\ authState = [accessToken |-> 1, refreshToken |-> 1, user |-> 1]
  /\ authRefs = [accessToken |-> 1, refreshToken |-> 1, user |-> 1]
  /\ refreshPromiseRef = 0
  /\ promises = <<>>
  /\ inFlight = {}
  /\ requests = [r \in 1..NumRequests |->
                   [pc |-> "idle", retry |-> FALSE, sends |-> 0, awaits |-> 0,
                    got |-> 0]]
  /\ cart = <<>>
  /\ cartAction = [type |-> ""]

\* ----- OrdersService.create, step by step ------------------------------------

\* the request arrives: the role check (@Roles(Role.CUSTOMER), ensureCustomer),
\* the validation pipe on the body, then prisma.$transaction opens the transaction
BeginWith(c, roles, lists) ==
  /\ pc[c] = "idle"
  /\ \E role \in roles, items \in lists, address \in Addresses :
       /\ req' = [req EXCEPT ![c] =
                    [customerId |-> IF role = "CUSTOMER"
                                    THEN CHOOSE u \in CustomerIds : TRUE
                                    ELSE CHOOSE u \in SellerIds : TRUE,
                     role |-> role, shippingAddress |-> address, items |-> items]]
       /\ IF EnsureCustomer(role)
          THEN /\ pc' = [pc EXCEPT ![c] = "failed"]
               /\ err' = [err EXCEPT ![c] = "Forbidden"]
               /\ tx' = tx
          ELSE IF ~ValidDto(items)
          THEN /\ pc' = [pc EXCEPT ![c] = "failed"]
               /\ err' = [err EXCEPT ![c] = "ValidationError"]
               /\ tx' = tx
          ELSE /\ pc' = [pc EXCEPT ![c] = "read"]
               /\ err' = err
               /\ tx' = [tx EXCEPT ![c] = "open"]
  /\ attempt' = [attempt EXCEPT ![c] = 1]
  /\ UNCHANGED <<statusVars, authVars, products, orders, nextOrderId, locks, snap, txOrder,
                 txWrites, pending, outbox>>

\* a checkout call with any role and any request body
Begin(c) == BeginWith(c, Roles, ItemLists)

\* findMany, the count check, the stock validation loop, createItems and total
Read(c) ==
  /\ pc[c] = "read"
  /\ LET items == req[c].items
         e     == ValidationError(items, products)
     IN IF e # ""
        THEN /\ pc' = [pc EXCEPT ![c] = "failed"]
             /\ err' = [err EXCEPT ![c] = e]
             /\ tx' = [tx EXCEPT ![c] = "rolledback"]
             /\ snap' = snap
        ELSE /\ pc' = [pc EXCEPT ![c] = "create"]
             /\ snap' = [snap EXCEPT ![c] = FindMany(KeySet(items), products)]
             /\ UNCHANGED <<err, tx>>
  /\ UNCHANGED <<statusVars, authVars, attempt, products, orders, nextOrderId, locks, req, txOrder,
                 txWrites, pending, outbox>>

\* tx.order.create with its items; status defaults to PENDING
CreateOrder(c) ==
  /\ pc[c] = "create"
  /\ txOrder' = [txOrder EXCEPT ![c] =
                   [id          |-> nextOrderId,
                    customerId  |-> req[c].customerId,
                    status      |-> "PENDING",
                    shippingAddress |-> req[c].shippingAddress,
                    totalAmount |-> TotalOf(req[c].items, snap[c]),
                    items       |-> CreateItems(req[c].items, snap[c])]]
  /\ nextOrderId' = nextOrderId + 1
  /\ pending' = [pending EXCEPT ![c] = KeysOf(req[c].items)]
  /\ pc' = [pc EXCEPT ![c] = "update"]
  /\ UNCHANGED <<statusVars, authVars, attempt, products, orders, locks, tx, req, snap, txWrites, err, outbox>>

\* the next tx.product.update of the Promise.all: takes the row lock
UpdateStock(c) ==
  /\ pc[c] = "update"
  /\ pending[c] # <<>>
  /\ LET p == Head(pending[c])
     IN /\ locks[p] \in {0, c}
        /\ locks' = [locks EXCEPT ![p] = c]
        /\ txWrites' = [txWrites EXCEPT ![c] =
                          Append(@, [id  |-> p,
                                     row |-> StockWrite(snap[c][p],
                                                        QuantityOf(req[c].items, p))])]
        /\ pending' = [pending EXCEPT ![c] = Tail(@)]
  /\ UNCHANGED <<statusVars, authVars, attempt, products, orders, nextOrderId, tx, pc, req, snap, txOrder,
                 err, outbox>>

\* the rows of products after a transaction's writes are applied
RECURSIVE ApplyWrites(_, _)
ApplyWrites(rows, writes) ==
  IF writes = <<>> THEN rows
  ELSE ApplyWrites([rows EXCEPT ![Head(writes).id] =
                      [@ EXCEPT !.stock = Head(writes).row.stock,
                                !.isActive = Head(writes).row.isActive]],
                   Tail(writes))

\* the callback returned: COMMIT
Commit(c) ==
  /\ pc[c] = "update"
  /\ pending[c] = <<>>
  /\ products' = ApplyWrites(products, txWrites[c])
  /\ orders' = Append(orders, txOrder[c])
  /\ locks' = ReleaseLocks(c)
  /\ tx' = [tx EXCEPT ![c] = "committed"]
  /\ pc' = [pc EXCEPT ![c] = "notify"]
  /\ UNCHANGED <<statusVars, authVars, attempt, nextOrderId, req, snap, txOrder, txWrites, pending, err, outbox>>

\* DeadlockAbort with the order insert outside the rolled back transaction
DeadlockAbortKeepsOrder(c) ==
  /\ Deadlocked(c)
  /\ locks' = ReleaseLocks(c)
  /\ tx' = [tx EXCEPT ![c] = "rolledback"]
  /\ pc' = [pc EXCEPT ![c] = "failed"]
  /\ err' = [err EXCEPT ![c] = "Conflict"]
  /\ orders' = Append(orders, txOrder[c])
  /\ UNCHANGED <<statusVars, authVars, attempt, products, nextOrderId, req, snap, txOrder, txWrites,
                 pending, outbox>>

\* the store aborts a transaction of a lock cycle: the callback's update
\* rejects, the transaction is rolled back and create rejects
DeadlockAbort(c) ==
  /\ Deadlocked(c)
  /\ locks' = ReleaseLocks(c)
  /\ tx' = [tx EXCEPT ![c] = "rolledback"]
  /\ pc' = [pc EXCEPT ![c] = "failed"]
  /\ err' = [err EXCEPT ![c] = "Conflict"]
  /\ txOrder' = [txOrder EXCEPT ![c] = NoOrder]
  /\ txWrites' = [txWrites EXCEPT ![c] = <<>>]
  /\ pending' = [pending EXCEPT ![c] = <<>>]
  /\ UNCHANGED <<statusVars, authVars, attempt, products, orders, nextOrderId, req, snap, outbox>>

\* Notify with the dispatch moved into the transaction callback
NotifyInsideTransaction(c) ==
  /\ pc[c] = "update"
  /\ pending[c] = <<>>
  /\ LET summary == BuildOrderSummary(txOrder[c])
     IN outbox' = outbox \o
          << [fn |-> "sendOrderConfirmation", orderId |-> summary.id,
              sends |-> ConfirmationSends(summary)],
             [fn |-> "sendSellerNotification", orderId |-> summary.id,
              sends |-> SellerSends(summary)] >>
  /\ pc' = [pc EXCEPT ![c] = "failed"]
  /\ err' = [err EXCEPT ![c] = "MailError"]
  /\ tx' = [tx EXCEPT ![c] = "rolledback"]
  /\ locks' = ReleaseLocks(c)
  /\ UNCHANGED <<statusVars, authVars, attempt, products, orders, nextOrderId, req, snap, txOrder,
                 txWrites, pending>>

\* Notify with a failed send undoing the order
NotifyUndoesOrder(c) ==
  /\ pc[c] = "notify"
  /\ outbox' = outbox
  /\ pc' = [pc EXCEPT ![c] = "failed"]
  /\ err' = [err EXCEPT ![c] = "MailError"]
  /\ orders' = SelectSeq(orders, LAMBDA o : o.id # txOrder[c].id)
  /\ UNCHANGED <<statusVars, authVars, attempt, products, nextOrderId, locks, tx, req, snap, txOrder,
                 txWrites, pending>>

\* buildOrderSummary, then Promise.all of sendOrderConfirmation and
\* sendSellerNotification; every this.send is issued before the first await
\* resumes, and create rejects when one of them rejects
Notify(c) ==
  /\ pc[c] = "notify"
  /\ LET summary == BuildOrderSummary(txOrder[c])
     IN outbox' = outbox \o
          << [fn |-> "sendOrderConfirmation", orderId |-> summary.id,
              sends |-> ConfirmationSends(summary)],
             [fn |-> "sendSellerNotification", orderId |-> summary.id,
              sends |-> SellerSends(summary)] >>
  /\ \E delivered \in BOOLEAN :
       IF delivered
       THEN /\ pc' = [pc EXCEPT ![c] = "done"]
            /\ err' = err
       ELSE /\ pc' = [pc EXCEPT ![c] = "failed"]
            /\ err' = [err EXCEPT ![c] = "MailError"]
  /\ UNCHANGED <<statusVars, authVars, attempt, products, orders, nextOrderId, locks, tx, req, snap, txOrder,
                 txWrites, pending>>

\* the caller submits the same checkout again after a Conflict: create runs
\* from its first line with the same arguments
Retry(c) ==
  /\ pc[c] = "failed"
  /\ err[c] = "Conflict"
  /\ attempt[c] < MaxAttempts
  /\ attempt' = [attempt EXCEPT ![c] = @ + 1]
  /\ pc' = [pc EXCEPT ![c] = "read"]
  /\ err' = [err EXCEPT ![c] = ""]
  /\ tx' = [tx EXCEPT ![c] = "open"]
  /\ snap' = [snap EXCEPT ![c] = <<>>]
  /\ UNCHANGED <<statusVars, authVars, products, orders, nextOrderId, locks, req, txOrder, txWrites,
                 pending, outbox>>

Next ==
  \E c \in Calls :
     \/ Begin(c)
     \/ Read(c)
     \/ CreateOrder(c)
     \/ UpdateStock(c)
     \/ Commit(c)
     \/ DeadlockAbort(c)
     \/ Retry(c)
     \/ Notify(c)

Spec == Init /\ [][Next]_vars

\* ----- OrdersService.updateStatus and ProductsService.update -----------------

\* order ids an updateStatus call names: an id has a row once so many orders
\* are committed
StatusOrderIds == 1..NumCalls

\* request bodies of the checkouts that precede the maintenance calls: well
\* formed, one unit of each of some seeded products, in ascending id order
OrderLists ==
  {l \in ItemLists :
     /\ ValidDto(l)
     /\ \A k \in 1..Len(l) : l[k].productId \in ProductIds /\ l[k].quantity = 1
     /\ \A j, k \in 1..Len(l) : j < k => l[j].productId < l[k].productId}

\* a customer's checkout call with one of these bodies
BeginOrder(c) == BeginWith(c, {"CUSTOMER"}, OrderLists)

EnsureSeller(role) == role # "SELLER"

\* prisma.order.findUnique: the positions of the committed rows with that id
FindUnique(rows, orderId) == {k \in 1..Len(rows) : rows[k].id = orderId}

SellerOwnsItemMutant(order, rows, sellerId) == TRUE

\* order.items.some((item) => item.product.sellerId === sellerId), on the
\* product rows joined by the include
SellerOwnsItem(order, rows, sellerId) ==
  \E k \in 1..Len(order.items) : rows[order.items[k].productId].sellerId = sellerId

StatusDataMutant(order, status) ==
  IF order.status = "DELIVERED" THEN order.status ELSE status

\* data: { status: dto.status }
StatusData(order, status) == status

\* the exception of updateStatus, "" when it updates
StatusError(orderId, sellerId, role) ==
  LET found == FindUnique(orders, orderId)
  IN IF EnsureSeller(role) THEN "Forbidden"
     ELSE IF found = {} THEN "NotFound"
     ELSE IF ~SellerOwnsItem(orders[CHOOSE k \in found : TRUE], products, sellerId)
          THEN "Forbidden"
     ELSE ""

\* PATCH /orders/:id/status by a signed-in user: ensureSeller, findUnique,
\* the ownership check, order.update
UpdateStatus ==
  /\ maintCalls < MaxMaintCalls
  /\ \E orderId \in StatusOrderIds, user \in UserIds, status \in OrderStatuses :
       LET e == StatusError(orderId, user, RoleOf[user])
       IN /\ statusCall' = [fn |-> "updateStatus", seq |-> maintCalls + 1,
                            orderId |-> orderId, sellerId |-> user,
                            role |-> RoleOf[user], status |-> status, err |-> e]
          /\ orders' = IF e # "" THEN orders
                       ELSE [k \in 1..Len(orders) |->
                               IF orders[k].id = orderId
                               THEN [orders[k] EXCEPT
                                       !.status = StatusData(orders[k], status)]
                               ELSE orders[k]]
  /\ maintCalls' = maintCalls + 1
  /\ UNCHANGED <<products, nextOrderId, locks, tx, pc, req, snap, txOrder,
                 txWrites, pending, err, attempt, outbox, created, restocked, authVars>>

\* the exception of ProductsService.update, "" when it updates
ProductError(productId, sellerId, role) ==
  IF EnsureSeller(role) THEN "Forbidden"
  ELSE IF productId \notin ProductIds THEN "NotFound"
  ELSE IF products[productId].sellerId # sellerId THEN "Forbidden"
  ELSE ""

\* the row ProductsService.update writes: data = {...dto}, price as Decimal,
\* and for a stock of 0 isActive = dto.isActive ?? false
UpdateData(row, dto) ==
  [row EXCEPT
     !.price = IF "price" \in dto.fields THEN dto.price ELSE @,
     !.stock = IF "stock" \in dto.fields THEN dto.stock ELSE @,
     !.isActive = IF "isActive" \in dto.fields THEN dto.isActive
                  ELSE IF "stock" \in dto.fields /\ dto.stock = 0 THEN FALSE
                  ELSE @]

\* ProductsService.update by a signed-in user with one of the given bodies,
\* while fewer than budget seller calls were made:
\* ensureSeller, assertOwnership, product.update; the UPDATE waits for the
\* row lock
UpdateProductWith(dtos, budget) ==
  /\ maintCalls < budget
  /\ \E productId \in RequestIds, user \in UserIds, dto \in dtos :
       LET e == ProductError(productId, user, RoleOf[user])
       IN /\ e = "" => locks[productId] = 0
          /\ products' = IF e # "" THEN products
                         ELSE [products EXCEPT
                                 ![productId] = UpdateData(@, dto)]
          /\ restocked' = IF e = "" /\ "stock" \in dto.fields /\ dto.stock > 0
                          THEN restocked \cup {productId}
                          ELSE restocked
  /\ maintCalls' = maintCalls + 1
  /\ UNCHANGED <<orders, nextOrderId, locks, tx, pc, req, snap, txOrder, txWrites,
                 pending, err, attempt, outbox, statusCall, created, authVars>>

\* bodies of PATCH /products/:id that change the price only
PriceDtos ==
  {[fields |-> {"price"}, price |-> price, stock |-> 0, isActive |-> FALSE] :
     price \in NewPrices}

\* UpdateProduct that also re-derives the unit prices of the product's order items
UpdateProductRepricesItems ==
  /\ maintCalls < MaxMaintCalls
  /\ \E productId \in ProductIds, price \in NewPrices :
       /\ locks[productId] = 0
       /\ products' = [products EXCEPT ![productId].price = price]
       /\ orders' = [k \in 1..Len(orders) |->
                       [orders[k] EXCEPT !.items =
                          [i \in 1..Len(orders[k].items) |->
                             IF orders[k].items[i].productId = productId
                             THEN [orders[k].items[i] EXCEPT !.unitPrice = price]
                             ELSE orders[k].items[i]]]]
  /\ maintCalls' = maintCalls + 1
  /\ UNCHANGED <<nextOrderId, locks, tx, pc, req, snap, txOrder, txWrites,
                 pending, err, attempt, outbox, statusCall, created, restocked,
                 authVars>>

\* ProductsService.update with dto = {price}
UpdateProduct == UpdateProductWith(PriceDtos, MaxMaintCalls)

NextOrders ==
  \/ \E c \in Calls :
        \/ BeginOrder(c)
        \/ Read(c)
        \/ CreateOrder(c)
        \/ UpdateStock(c)
        \/ Commit(c)
        \/ Notify(c)
  \/ UpdateStatus
  \/ UpdateProduct

\* checkouts of well-formed single-unit orders, with status and price updates;
\* these checkouts take their row locks in one order, so the store aborts none
SpecOrders == Init /\ [][NextOrders]_vars

\* ----- OrdersService.create, abandoned before its commit ------------------------

\* Abandon with the order insert outside the rolled back transaction
AbandonKeepsOrder(c) ==
  /\ tx[c] = "open"
  /\ pc[c] = "update"
  /\ locks' = ReleaseLocks(c)
  /\ tx' = [tx EXCEPT ![c] = "rolledback"]
  /\ pc' = [pc EXCEPT ![c] = "failed"]
  /\ err' = [err EXCEPT ![c] = "TransactionError"]
  /\ orders' = Append(orders, txOrder[c])
  /\ UNCHANGED <<statusVars, authVars, attempt, products, nextOrderId, req, snap,
                 txOrder, txWrites, pending, outbox>>

\* the transaction callback rejects or the interactive transaction runs out
\* of time before the callback returned: ROLLBACK, and create rejects
Abandon(c) ==
  /\ tx[c] = "open"
  /\ pc[c] \in {"read", "create", "update"}
  /\ locks' = ReleaseLocks(c)
  /\ tx' = [tx EXCEPT ![c] = "rolledback"]
  /\ pc' = [pc EXCEPT ![c] = "failed"]
  /\ err' = [err EXCEPT ![c] = "TransactionError"]
  /\ txOrder' = [txOrder EXCEPT ![c] = NoOrder]
  /\ txWrites' = [txWrites EXCEPT ![c] = <<>>]
  /\ pending' = [pending EXCEPT ![c] = <<>>]
  /\ UNCHANGED <<statusVars, authVars, attempt, products, orders, nextOrderId, req,
                 snap, outbox>>

NextAbandon ==
  \E c \in Calls :
     \/ BeginOrder(c)
     \/ Read(c)
     \/ CreateOrder(c)
     \/ UpdateStock(c)
     \/ Commit(c)
     \/ Abandon(c)
     \/ Notify(c)

\* checkouts of well-formed single-unit orders, each of which can be abandoned
\* at any point of its transaction
SpecAbandon == Init /\ [][NextAbandon]_vars

\* ----- ProductsService: updateStock, update with stock, create, findAll --------

\* stock values a seller sends: UpdateStockDto and CreateProductDto take
\* integers of 0 or more
StockEdits == {0, 4}

\* request bodies of the checkouts that run beside the seller's stock calls:
\* one entry naming a seeded product
StockLists ==
  {l \in ItemLists :
     /\ Len(l) = 1
     /\ l[1].productId \in ProductIds
     /\ l[1].quantity \in 1..2}

\* a customer's checkout call with one of these bodies
BeginStock(c) == BeginWith(c, {"CUSTOMER"}, StockLists)

StockDataMutant(stock) == [stock |-> stock, isActive |-> TRUE]

\* data: { stock: dto.stock, isActive: dto.stock > 0 }
StockData(stock) == [stock |-> stock, isActive |-> stock > 0]

\* PATCH /products/:id/stock by a signed-in user: ensureSeller,
\* assertOwnership, product.update; the UPDATE waits for the row lock
ProductsUpdateStock ==
  /\ maintCalls < MaxStockCalls
  /\ \E productId \in RequestIds, user \in UserIds, stock \in StockEdits :
       LET e == ProductError(productId, user, RoleOf[user])
       IN /\ e = "" => locks[productId] = 0
          /\ statusCall' = [fn |-> "updateStock", seq |-> maintCalls + 1,
                            productId |-> productId, sellerId |-> user,
                            role |-> RoleOf[user], stock |-> stock, err |-> e]
          /\ products' = IF e # "" THEN products
                         ELSE [products EXCEPT
                                 ![productId] =
                                   [@ EXCEPT !.stock = StockData(stock).stock,
                                             !.isActive = StockData(stock).isActive]]
          /\ restocked' = IF e = "" /\ stock > 0
                          THEN restocked \cup {productId}
                          ELSE restocked
  /\ maintCalls' = maintCalls + 1
  /\ UNCHANGED <<orders, nextOrderId, locks, tx, pc, req, snap, txOrder, txWrites,
                 pending, err, attempt, outbox, created, authVars>>

\* bodies of PATCH /products/:id that carry a stock, an isActive flag or both
StockDtos ==
  {[fields |-> {"stock"}, price |-> 0, stock |-> stock, isActive |-> FALSE] :
     stock \in StockEdits}
  \cup {[fields |-> {"stock", "isActive"}, price |-> 0, stock |-> stock,
         isActive |-> flag] : stock \in StockEdits, flag \in BOOLEAN}
  \cup {[fields |-> {"isActive"}, price |-> 0, stock |-> 0, isActive |-> flag] :
          flag \in BOOLEAN}

\* ProductsService.update with one of these bodies
UpdateProductStock == UpdateProductWith(StockDtos, MaxStockCalls)

\* bodies of POST /products: a stock, with or without an isActive flag
CreateDtos ==
  {[fields |-> {}, stock |-> stock, isActive |-> FALSE] : stock \in StockEdits}
  \cup {[fields |-> {"isActive"}, stock |-> stock, isActive |-> flag] :
          stock \in StockEdits, flag \in BOOLEAN}

\* the row ProductsService.create inserts: isActive: dto.isActive ?? dto.stock > 0
CreateData(sellerId, dto) ==
  [sellerId |-> sellerId,
   stock    |-> dto.stock,
   isActive |-> IF "isActive" \in dto.fields THEN dto.isActive ELSE dto.stock > 0]

\* POST /products by a signed-in user: ensureSeller, product.create
CreateProduct ==
  /\ maintCalls < MaxStockCalls
  /\ \E user \in UserIds, dto \in CreateDtos :
       created' = IF EnsureSeller(RoleOf[user]) THEN created
                  ELSE Append(created, CreateData(user, dto))
  /\ maintCalls' = maintCalls + 1
  /\ UNCHANGED <<products, orders, nextOrderId, locks, tx, pc, req, snap, txOrder,
                 txWrites, pending, err, attempt, outbox, statusCall, restocked,
                 authVars>>

\* ProductsService.findAll: where: { isActive: true }
FindAll(rows) == {p \in ProductIds : rows[p].isActive}

NextStock ==
  \/ \E c \in Calls :
        \/ BeginStock(c)
        \/ Read(c)
        \/ CreateOrder(c)
        \/ UpdateStock(c)
        \/ Commit(c)
        \/ Notify(c)
  \/ ProductsUpdateStock
  \/ UpdateProductStock
  \/ CreateProduct

\* single-line checkouts beside the seller's stock calls; a single line takes
\* one row lock, so the store aborts none of these checkouts
SpecStock == Init /\ [][NextStock]_vars

\* ----- AuthService: login, refreshToken, logout --------------------------------

\* the state of the checkout, which AuthService leaves alone
checkoutVars == <<products, orders, nextOrderId, locks, tx, pc, req, snap,
                  txOrder, txWrites, pending, err, attempt, outbox>>

\* generateTokens: the refresh token signed for a user; its payload is
\* {sub, email, role, jti, iat, exp} in this order, with a jti no earlier token has
GenerateTokens(user) == [sub |-> user, jti |-> Cardinality(issued) + 1]

\* a token the service did not sign, one for each user
Forged == {[sub |-> u, jti |-> 0] : u \in UserIds}

\* jwtService.verify: the signature is the service's
JwtVerify(token) == token \in issued

\* users.email of the row with that id
EmailOf(u) ==
  IF u \in UserIds THEN Email[u] ELSE registered[u - Cardinality(UserIds)].email

\* the first 72 bytes of the compact JWT: the 36 characters of the header
\* {"alg":"HS256","typ":"JWT"}, the dot, and 35 characters of the payload,
\* which encode {"sub":N,"email":" and the first characters of the email;
\* role, jti, iat and exp lie beyond them
First72Bytes(token) == [sub |-> token.sub, email |-> EmailOf(token.sub)]

\* bcrypt.hash of bcryptjs: of the input only the first 72 bytes enter the key
\* schedule (the salt is kept in the hash, so compare recomputes the same)
BcryptHash(token) == First72Bytes(token)

\* bcrypt.compare
BcryptCompare(token, hash) == BcryptHash(token) = hash

\* login for the account of a seeded user, with the right or a wrong password
Login(u) ==
  /\ Cardinality(issued) < MaxTokens
  /\ \E passwordOk \in BOOLEAN :
       IF ~passwordOk
       THEN /\ authCall' = [fn |-> "login", user |-> u, presented |-> NoToken,
                            err |-> "Unauthorized", returned |-> NoToken]
            /\ UNCHANGED <<issued, refreshHash>>
       ELSE LET token == GenerateTokens(u)
            IN /\ issued' = issued \cup {token}
               /\ refreshHash' = [refreshHash EXCEPT ![u] = BcryptHash(token)]
               /\ authCall' = [fn |-> "login", user |-> u, presented |-> NoToken,
                               err |-> "", returned |-> token]
  /\ UNCHANGED <<checkoutVars, statusVars, clientVars, regVars>>

\* refreshToken up to the comparison: verify, findUnique, the stored hash,
\* bcrypt.compare; every throw becomes Unauthorized
RefreshVerify(k) ==
  /\ refresh[k].pc = "idle"
  /\ \E token \in issued \cup Forged :
       IF \/ ~JwtVerify(token)
          \/ refreshHash[token.sub] = NullHash
          \/ ~BcryptCompare(token, refreshHash[token.sub])
       THEN /\ authCall' = [fn |-> "refreshToken", user |-> token.sub,
                            presented |-> token, err |-> "Unauthorized",
                            returned |-> NoToken]
            /\ refresh' = [refresh EXCEPT ![k] = [pc |-> "failed", token |-> token]]
       ELSE /\ authCall' = authCall
            /\ refresh' = [refresh EXCEPT ![k] = [pc |-> "rotate", token |-> token]]
  /\ UNCHANGED <<checkoutVars, statusVars, clientVars, registered, reg, issued, refreshHash>>

\* refreshToken after the comparison: generateTokens, updateRefreshToken and
\* the response
RefreshRotate(k) ==
  /\ refresh[k].pc = "rotate"
  /\ Cardinality(issued) < MaxTokens
  /\ LET token == refresh[k].token
         newRefreshToken == GenerateTokens(token.sub)
     IN /\ issued' = issued \cup {newRefreshToken}
        /\ refreshHash' = [refreshHash EXCEPT
                             ![token.sub] = BcryptHash(newRefreshToken)]
        /\ authCall' = [fn |-> "refreshToken", user |-> token.sub,
                        presented |-> token, err |-> "",
                        returned |-> newRefreshToken]
  /\ refresh' = [refresh EXCEPT ![k].pc = "done"]
  /\ UNCHANGED <<checkoutVars, statusVars, clientVars, registered, reg>>

\* logout: users.refreshToken becomes null
Logout(u) ==
  /\ refreshHash' = [refreshHash EXCEPT ![u] = NullHash]
  /\ authCall' = [fn |-> "logout", user |-> u, presented |-> NoToken,
                  err |-> "", returned |-> NoToken]
  /\ UNCHANGED <<issued, checkoutVars, statusVars, clientVars, regVars>>


\* String.prototype.trim: the text without the blanks around it
Trim(raw) == raw.text

\* String.prototype.toLowerCase on the texts of EmailTexts
ToLowerCase(text) ==
  CASE text = "Shopper@TeaHaven.dev" -> "shopper@teahaven.dev"
    [] text = "NEW@teahaven.dev" -> "new@teahaven.dev"
    [] OTHER -> text

\* registerDto.email.trim().toLowerCase()
NormalizeEmail(raw) == ToLowerCase(Trim(raw))

\* prisma.user.findUnique({ where: { email } }): the ids of the rows with it
UserByEmail(email) ==
  {u \in UserIds : Email[u] = email}
    \cup {Cardinality(UserIds) + k : k \in {n \in 1..Len(registered) :
                                               registered[n].email = email}}

\* register up to the lookup: normalise the email, findUnique, Conflict when
\* a row has it
RegisterFind(r) ==
  /\ reg[r].pc = "idle"
  /\ \E raw \in RawEmails :
       LET email == NormalizeEmail(raw)
       IN reg' = [reg EXCEPT ![r] =
                    IF UserByEmail(email) # {}
                    THEN [pc |-> "failed", email |-> email, err |-> "Conflict"]
                    ELSE [pc |-> "create", email |-> email, err |-> ""]]
  /\ UNCHANGED <<checkoutVars, statusVars, clientVars, refreshHash, issued, authCall, registered,
                 refresh>>

\* RegisterCreate without the unique index users_email_key
RegisterCreateNoIndex(r) ==
  /\ reg[r].pc = "create"
  /\ registered' = Append(registered, [email |-> reg[r].email])
  /\ reg' = [reg EXCEPT ![r].pc = "tokens"]
  /\ UNCHANGED <<checkoutVars, statusVars, clientVars, refreshHash, issued, authCall, refresh>>

\* prisma.user.create: the unique index users_email_key rejects a second row
\* with the email (the client's unique constraint error, code P2002)
RegisterCreate(r) ==
  /\ reg[r].pc = "create"
  /\ IF UserByEmail(reg[r].email) # {}
     THEN /\ reg' = [reg EXCEPT ![r].pc = "failed", ![r].err = "UniqueViolation"]
          /\ registered' = registered
     ELSE /\ registered' = Append(registered, [email |-> reg[r].email])
          /\ reg' = [reg EXCEPT ![r].pc = "tokens"]
  /\ UNCHANGED <<checkoutVars, statusVars, clientVars, refreshHash, issued, authCall, refresh>>

\* the id of the row a register call inserted
RowOf(r) ==
  Cardinality(UserIds)
    + CHOOSE k \in 1..Len(registered) : registered[k].email = reg[r].email

\* generateTokens and updateRefreshToken for the new user, then the response
RegisterTokens(r) ==
  /\ reg[r].pc = "tokens"
  /\ Cardinality(issued) < MaxTokens
  /\ LET token == GenerateTokens(RowOf(r))
     IN /\ issued' = issued \cup {token}
        /\ refreshHash' = [refreshHash EXCEPT ![RowOf(r)] = BcryptHash(token)]
        /\ authCall' = [fn |-> "register", user |-> RowOf(r), presented |-> NoToken,
                        err |-> "", returned |-> token]
  /\ reg' = [reg EXCEPT ![r].pc = "done"]
  /\ UNCHANGED <<checkoutVars, statusVars, clientVars, registered, refresh>>

\* changePassword of a seeded user, with a right or wrong current password
\* and a new password that differs from it or not
ChangePassword(u) ==
  /\ Cardinality(issued) < MaxTokens
  /\ \E matches \in BOOLEAN, samePassword \in BOOLEAN :
       IF ~matches \/ samePassword
       THEN /\ authCall' = [fn |-> "changePassword", user |-> u,
                            presented |-> NoToken, err |-> "BadRequest",
                            returned |-> NoToken]
            /\ UNCHANGED <<issued, refreshHash>>
       ELSE LET token == GenerateTokens(u)
            IN /\ issued' = issued \cup {token}
               /\ refreshHash' = [refreshHash EXCEPT ![u] = BcryptHash(token)]
               /\ authCall' = [fn |-> "changePassword", user |-> u,
                               presented |-> NoToken, err |-> "",
                               returned |-> token]
  /\ UNCHANGED <<checkoutVars, statusVars, clientVars, regVars>>

NextAuth ==
  \/ \E u \in UserIds : Login(u) \/ Logout(u) \/ ChangePassword(u)
  \/ \E k \in RefreshCalls : RefreshVerify(k) \/ RefreshRotate(k)

\* the calls of AuthService on the seeded accounts
SpecAuth == Init /\ [][NextAuth]_vars

NextRegister ==
  \E r \in RegCalls : RegisterFind(r) \/ RegisterCreate(r) \/ RegisterTokens(r)

\* interleaved AuthService.register calls
SpecRegister == Init /\ [][NextRegister]_vars

\* ----- frontend: AuthProvider, the token refresh -------------------------------

\* everything the browser leaves alone
serverVars == <<checkoutVars, statusVars, refreshHash, issued, authCall, regVars>>

Requests == 1..NumRequests

NoSession == [accessToken |-> 0, refreshToken |-> 0, user |-> 0]

NeedsPostMutant == TRUE

\* if (!refreshPromiseRef.current)
NeedsPost == refreshPromiseRef = 0

\* a request goes out through apiRef.current
SendRequest(r) ==
  /\ requests[r].pc = "idle"
  /\ requests' = [requests EXCEPT ![r].pc = "sent", ![r].sends = 1]
  /\ UNCHANGED <<serverVars, cartVars, authState, authRefs, refreshPromiseRef,
                 promises, inFlight>>

\* the response of a request arrives: 200, or 401 and the error handler of
\* responseInterceptor, which calls performRefresh or performLogout(false)
ResponseInterceptor(r) ==
  /\ requests[r].pc = "sent"
  /\ \E status \in {200, 401} :
       IF status = 200
       THEN /\ requests' = [requests EXCEPT ![r].pc = "done"]
            /\ UNCHANGED <<authState, authRefs, refreshPromiseRef, promises, inFlight>>
       ELSE IF authRefs.refreshToken # 0 /\ ~requests[r].retry
       THEN /\ IF NeedsPost
               THEN /\ promises' = Append(promises,
                                          [state |-> "pending", value |-> 0,
                                           refreshToken |-> authRefs.refreshToken])
                    /\ refreshPromiseRef' = Len(promises) + 1
                    /\ inFlight' = inFlight \cup {Len(promises) + 1}
               ELSE UNCHANGED <<promises, refreshPromiseRef, inFlight>>
            /\ requests' = [requests EXCEPT ![r].pc = "waiting",
                                            ![r].retry = TRUE,
                                            ![r].awaits = refreshPromiseRef']
            /\ UNCHANGED <<authState, authRefs>>
       ELSE /\ authState' = NoSession
            /\ authRefs' = NoSession
            /\ requests' = [requests EXCEPT ![r].pc = "failed"]
            /\ UNCHANGED <<refreshPromiseRef, promises, inFlight>>
  /\ UNCHANGED <<serverVars, cartVars>>

\* the response of POST /auth/refresh arrives: then (persistSession) or catch
\* (clearSession), and finally
RefreshResponse(n) ==
  /\ n \in inFlight
  /\ inFlight' = inFlight \ {n}
  /\ \E ok \in BOOLEAN :
       IF ok
       THEN LET userToStore == IF authRefs.user # 0 THEN authRefs.user ELSE 1
            IN /\ authState' = [accessToken |-> n + 1, refreshToken |-> n + 1,
                                user |-> userToStore]
               /\ authRefs' = [authRefs EXCEPT !.user = userToStore]
               /\ promises' = [promises EXCEPT ![n].state = "settled",
                                               ![n].value = n + 1]
       ELSE /\ authState' = NoSession
            /\ authRefs' = NoSession
            /\ promises' = [promises EXCEPT ![n].state = "settled"]
  /\ refreshPromiseRef' = 0
  /\ UNCHANGED <<serverVars, cartVars, requests>>

\* a request that awaited performRefresh continues: api(originalRequest) with
\* the new token, or performLogout(false) and the rejection
Resume(r) ==
  /\ requests[r].pc = "waiting"
  /\ promises[requests[r].awaits].state = "settled"
  /\ LET refreshed == promises[requests[r].awaits].value
     IN IF refreshed # 0
        THEN /\ requests' = [requests EXCEPT ![r].pc = "sent",
                                             ![r].got = refreshed,
                                             ![r].sends = @ + 1]
             /\ UNCHANGED <<authState, authRefs>>
        ELSE /\ requests' = [requests EXCEPT ![r].pc = "failed", ![r].got = refreshed]
             /\ authState' = NoSession
             /\ authRefs' = NoSession
  /\ UNCHANGED <<serverVars, cartVars, refreshPromiseRef, promises, inFlight>>

\* the effects that copy accessToken, refreshToken and user into their refs
\* after a render
SyncRefs ==
  /\ authRefs # authState
  /\ authRefs' = authState
  /\ UNCHANGED <<serverVars, cartVars, authState, refreshPromiseRef, promises,
                 inFlight, requests>>

NextFrontend ==
  \/ \E r \in Requests : SendRequest(r) \/ ResponseInterceptor(r) \/ Resume(r)
  \/ \E n \in 1..NumRequests : RefreshResponse(n)
  \/ SyncRefs

\* API requests of a signed-in browser, any of which the server may answer
\* with 401
SpecFrontend == Init /\ [][NextFrontend]_vars

\* ----- frontend: cartReducer ---------------------------------------------------

\* quantities the callers pass: any integer
CartQuantities == (-1)..2

CartActions ==
  [type : {"UPSERT", "UPDATE"}, productId : ProductIds, quantity : CartQuantities]
  \cup [type : {"REMOVE"}, productId : ProductIds, quantity : {0}]
  \cup [type : {"CLEAR"}, productId : {0}, quantity : {0}]

\* Math.max
Max(a, b) == IF a >= b THEN a ELSE b

\* state.items.find((item) => item.productId === productId)
Existing(items, productId) == {k \in 1..Len(items) : items[k].productId = productId}

\* case 'UPSERT' with every call appending nextItem
UpsertAppends(items, productId, quantity) ==
  Append(items, [productId |-> productId, price |-> SeedPrice[productId],
                 quantity |-> Max(1, quantity)])

\* case 'UPSERT'
Upsert(items, productId, quantity) ==
  LET existing == Existing(items, productId)
      before   == IF existing = {} THEN 0
                  ELSE items[CHOOSE k \in existing : \A j \in existing : k <= j].quantity
      nextItem == [productId |-> productId, price |-> SeedPrice[productId],
                   quantity |-> Max(1, before + quantity)]
  IN IF existing # {}
     THEN [k \in 1..Len(items) |->
             IF items[k].productId = productId THEN nextItem ELSE items[k]]
     ELSE Append(items, nextItem)

\* case 'REMOVE'
Remove(items, productId) ==
  SelectSeq(items, LAMBDA item : item.productId # productId)

\* case 'UPDATE'
Update(items, productId, quantity) ==
  IF quantity <= 0
  THEN SelectSeq(items, LAMBDA item : item.productId # productId)
  ELSE [k \in 1..Len(items) |->
          IF items[k].productId = productId
          THEN [items[k] EXCEPT !.quantity = Max(1, quantity)]
          ELSE items[k]]

\* cartReducer, on state.items
CartReducer(items, action) ==
  CASE action.type = "UPSERT" -> Upsert(items, action.productId, action.quantity)
    [] action.type = "UPDATE" -> Update(items, action.productId, action.quantity)
    [] action.type = "REMOVE" -> Remove(items, action.productId)
    [] action.type = "CLEAR"  -> <<>>
    [] OTHER -> items

\* toOrderPayload(shippingAddress)
ToOrderPayload(items, shippingAddress) ==
  [shippingAddress |-> shippingAddress,
   items |-> [k \in 1..Len(items) |->
                [productId |-> items[k].productId, quantity |-> items[k].quantity]]]

\* dispatch(action)
Dispatch(action) ==
  /\ \A k \in 1..Len(CartReducer(cart, action)) :
        CartReducer(cart, action)[k].quantity <= MaxCartQty
  /\ Len(CartReducer(cart, action)) <= Cardinality(ProductIds) + 1
  /\ cart' = CartReducer(cart, action)
  /\ cartAction' = action
  /\ UNCHANGED <<serverVars, frontVars>>

NextCart == \E action \in CartActions : Dispatch(action)

\* actions dispatched to the cart of CartProvider, from the empty cart
SpecCart == Init /\ [][NextCart]_vars

\* ===== properties ============================================================

\* the sum of the quantities of the entries of items that name product p
RECURSIVE SumQty(_, _)
SumQty(items, p) ==
  IF items = <<>> THEN 0
  ELSE (IF Head(items).productId = p THEN Head(items).quantity ELSE 0)
         + SumQty(Tail(items), p)

\* the quantity of product p over the order_items of all committed orders
RECURSIVE SoldQty(_, _)
SoldQty(os, p) ==
  IF os = <<>> THEN 0 ELSE SumQty(Head(os).items, p) + SoldQty(Tail(os), p)

Named(c) == {req[c].items[k].productId : k \in 1..Len(req[c].items)}

Committed(c) == tx[c] = "committed"
Finished(c)  == pc[c] \in {"done", "failed"}

\* C1: two checkouts of one product with stock s, asking q1 <= s and q2 <= s
\* with q1 + q2 > s, never both succeed; for s = 5 and q1 = q2 = 3 exactly one
\* succeeds and the final stock is 2.
C1_AtMostOneCheckoutSucceeds ==
  \A c, d \in Calls : \A p \in ProductIds :
     LET s  == SeedStock[p]
         q1 == SumQty(req[c].items, p)
         q2 == SumQty(req[d].items, p)
     IN (c # d /\ Named(c) = {p} /\ Named(d) = {p}
           /\ req[c].role = "CUSTOMER" /\ req[d].role = "CUSTOMER"
           /\ q1 <= s /\ q2 <= s /\ q1 + q2 > s)
        => /\ ~(Committed(c) /\ Committed(d))
           /\ (Finished(c) /\ Finished(d) /\ NumCalls = 2 /\ s = 5 /\ q1 = 3 /\ q2 = 3)
                => /\ Committed(c) # Committed(d)
                   /\ products[p].stock = 2

\* C2: no lost update: for every product the seeded stock minus the current
\* stock is the quantity of that product over all persisted order items.
C2_NoLostUpdate ==
  \A p \in ProductIds :
     SeedStock[p] - products[p].stock = SoldQty(orders, p)

\* C3: every product's stock is a non-negative integer in every reachable state.
C3_StockNonNegative ==
  \A p \in ProductIds : products[p].stock \in Nat

\* C3 witness: two checkouts of one product have interleaved and both committed
C3_Witness ==
  \E c, d \in Calls : \E p \in ProductIds :
     /\ c # d /\ Committed(c) /\ Committed(d)
     /\ p \in Named(c) \cap Named(d)
     /\ SoldQty(orders, p) > SeedStock[p]
     /\ products[p].stock \in Nat

\* the request that names every product of items once, with the summed quantity
Aggregated(items) ==
  LET keys == KeysOf(items)
  IN [k \in 1..Len(keys) |-> [productId |-> keys[k], quantity |-> SumQty(items, keys[k])]]

\* call c takes the step that reads the products and validates the request
ReadStep(c) == pc[c] = "read" /\ pc'[c] # "read"

\* the step made no change to the store on behalf of call c
NothingPersisted(c) ==
  /\ products' = products
  /\ orders' = orders
  /\ txOrder'[c] = NoOrder
  /\ txWrites'[c] = <<>>
  /\ tx'[c] = "rolledback"

\* C4: the quantities of the entries that name one product are summed before
\* the stock check: a request is rejected for insufficient stock exactly when
\* the request with one entry {p, Q} per product, Q the sum, would be.
C4_SplitEntriesAreSummed ==
  [][\A c \in Calls :
       ReadStep(c) =>
         /\ (err'[c] = "InsufficientStock")
              = (ValidationError(Aggregated(req[c].items), products) = "InsufficientStock")
         /\ (err'[c] = "InsufficientStock")
              = (/\ \A id \in Named(c) : id \in ProductIds /\ products[id].isActive
                 /\ \E p \in Named(c) : SumQty(req[c].items, p) > products[p].stock)]_vars

\* C4 witness: a request whose two entries each fit the stock but whose sum
\* does not was rejected for insufficient stock
C4_Witness ==
  \E c \in Calls : \E p \in ProductIds :
     /\ err[c] = "InsufficientStock"
     /\ Len(req[c].items) = 2
     /\ \A k \in 1..2 : /\ req[c].items[k].productId = p
                        /\ req[c].items[k].quantity <= products[p].stock
     /\ SumQty(req[c].items, p) > products[p].stock

\* some product of the request of c is asked for more than its stock
AsksTooMuch(c) ==
  \E p \in Named(c) \cap ProductIds : SumQty(req[c].items, p) > products[p].stock

\* C5 as stated: a request that asks for more than the stock of one of its
\* products fails with the insufficient-stock error and persists nothing.
C5_Original ==
  [][\A c \in Calls :
       (ReadStep(c) /\ AsksTooMuch(c)) =>
          /\ pc'[c] = "failed"
          /\ err'[c] = "InsufficientStock"
          /\ NothingPersisted(c)]_vars

\* C5 amended: such a request fails and persists nothing; the error is the
\* insufficient-stock error when every product it names exists and is active,
\* and NotFound otherwise.
C5_Amended ==
  [][\A c \in Calls :
       (ReadStep(c) /\ AsksTooMuch(c)) =>
          /\ pc'[c] = "failed"
          /\ err'[c] = IF \A id \in Named(c) : id \in ProductIds /\ products[id].isActive
                       THEN "InsufficientStock" ELSE "NotFound"
          /\ NothingPersisted(c)]_vars

\* C5 witness: a request for two products, one with enough stock and one
\* without, failed with the insufficient-stock error and left no order
C5_Witness ==
  \E c \in Calls : \E p, q \in ProductIds :
     /\ p # q /\ Named(c) = {p, q}
     /\ err[c] = "InsufficientStock" /\ pc[c] = "failed"
     /\ SumQty(req[c].items, p) <= products[p].stock
     /\ SumQty(req[c].items, q) > products[q].stock
     /\ txOrder[c] = NoOrder /\ tx[c] = "rolledback"

\* C6: a successful checkout of total quantity q of a product whose stock it
\* read as s leaves the stock s - q and active exactly when s - q > 0; the
\* products it does not name are unchanged.
C6_StockAndActiveAfterCheckout ==
  [][\A c \in Calls :
       (tx[c] = "open" /\ tx'[c] = "committed") =>
          \A p \in ProductIds :
             IF p \in Named(c)
             THEN LET s == snap[c][p].stock
                      q == SumQty(req[c].items, p)
                  IN /\ products'[p].stock = s - q
                     /\ products'[p].isActive = (s - q > 0)
                     /\ products'[p].price = products[p].price
                     /\ products'[p].sellerId = products[p].sellerId
             ELSE products'[p] = products[p]]_vars

\* C6 witness: a committed checkout took the whole stock of one product and
\* left it inactive, the other product untouched
C6_Witness ==
  \E c \in Calls : \E p, q \in ProductIds :
     /\ Committed(c) /\ Named(c) = {p} /\ q # p
     /\ SumQty(req[c].items, p) = SeedStock[p]
     /\ products[p].stock = 0 /\ ~products[p].isActive
     /\ products[q].stock = SeedStock[q] /\ products[q].isActive

\* the sum of unitPrice * quantity over the lines of an order
RECURSIVE SumLines(_)
SumLines(lines) ==
  IF lines = <<>> THEN 0
  ELSE Head(lines).unitPrice * Head(lines).quantity + SumLines(Tail(lines))

\* C7: totalAmount of every created order is the exact sum of
\* unitPrice * quantity over its line items (12.50 x 2 gives 25.00).
C7_TotalIsSumOfLines ==
  /\ \A k \in 1..Len(orders) : orders[k].totalAmount = SumLines(orders[k].items)
  /\ \A c \in Calls :
        txOrder[c] # NoOrder =>
          /\ txOrder[c].totalAmount = SumLines(txOrder[c].items)
          /\ (req[c].items = <<[productId |-> 1, quantity |-> 2]>>
                => txOrder[c].totalAmount = 2500)

\* C7 witness: a committed order of two lines with different prices
C7_Witness ==
  \E k \in 1..Len(orders) :
     /\ Len(orders[k].items) = 2
     /\ orders[k].items[1].unitPrice # orders[k].items[2].unitPrice
     /\ orders[k].items[1].quantity = 2
     /\ orders[k].totalAmount
          = 2 * orders[k].items[1].unitPrice
              + orders[k].items[2].quantity * orders[k].items[2].unitPrice

\* the request of c names an id with no product row or an inactive product
NamesMissingOrInactive(c) ==
  \E id \in Named(c) : id \notin ProductIds \/ ~products[id].isActive

\* C8: a checkout that names a nonexistent or inactive product fails with
\* NotFound and persists nothing, also when its other products are valid.
C8_MissingOrInactiveIsNotFound ==
  [][\A c \in Calls :
       (ReadStep(c) /\ NamesMissingOrInactive(c)) =>
          /\ pc'[c] = "failed"
          /\ err'[c] = "NotFound"
          /\ NothingPersisted(c)]_vars

\* C8 witness: a request naming a depleted, inactive product next to a product
\* with enough stock failed with NotFound
C8_Witness ==
  \E c \in Calls : \E p, q \in ProductIds :
     /\ p # q /\ Named(c) = {p, q}
     /\ err[c] = "NotFound" /\ pc[c] = "failed"
     /\ ~products[p].isActive
     /\ products[q].isActive /\ SumQty(req[c].items, q) <= products[q].stock
     /\ txOrder[c] = NoOrder

\* C9: a checkout called with a role other than CUSTOMER fails with Forbidden
\* before any store access: no transaction, no read, no order, no stock write.
C9_NonCustomerIsForbidden ==
  \A c \in Calls :
     (pc[c] # "idle" /\ req[c].role # "CUSTOMER") =>
        /\ pc[c] = "failed" /\ err[c] = "Forbidden"
        /\ tx[c] = "none"
        /\ snap[c] = <<>>
        /\ txOrder[c] = NoOrder
        /\ txWrites[c] = <<>>
        /\ \A p \in ProductIds : locks[p] # c

\* C9 witness: a seller's checkout of a product in stock was refused
C9_Witness ==
  \E c \in Calls :
     /\ req[c].role = "SELLER" /\ err[c] = "Forbidden"
     /\ \E p \in ProductIds :
          /\ Named(c) = {p} /\ products[p].isActive
          /\ SumQty(req[c].items, p) <= products[p].stock

\* the lines of an order that belong to seller s, in order, as item summaries
RECURSIVE LinesOfSeller(_, _)
LinesOfSeller(lines, s) ==
  IF lines = <<>> THEN <<>>
  ELSE (IF Head(lines).sellerId = s
        THEN << [productId |-> Head(lines).productId,
                 quantity  |-> Head(lines).quantity,
                 unitPrice |-> Head(lines).unitPrice] >>
        ELSE <<>>) \o LinesOfSeller(Tail(lines), s)

SellersOf(order) == {order.items[k].sellerId : k \in 1..Len(order.items)}

SellerCalls(orderId) ==
  {k \in 1..Len(outbox) :
     outbox[k].fn = "sendSellerNotification" /\ outbox[k].orderId = orderId}

\* C10: for a committed order with k distinct sellers the seller notification
\* is invoked once and sends k messages, one per seller, each listing all and
\* only that seller's line items.
C10_OneMessagePerSeller ==
  /\ \A c \in Calls :
        (Committed(c) /\ pc[c] # "notify") => Cardinality(SellerCalls(txOrder[c].id)) = 1
  /\ \A n \in 1..Len(outbox) :
        outbox[n].fn = "sendSellerNotification" =>
          \E j \in 1..Len(orders) :
             LET order == orders[j]
                 sends == outbox[n].sends
             IN /\ order.id = outbox[n].orderId
                /\ SellerCalls(order.id) = {n}
                /\ Len(sends) = Cardinality(SellersOf(order))
                /\ \A s \in SellersOf(order) :
                      \E i \in 1..Len(sends) :
                         /\ sends[i].to = Email[s]
                         /\ sends[i].items = LinesOfSeller(order.items, s)
                         /\ \A i2 \in 1..Len(sends) : sends[i2].to = Email[s] => i2 = i

\* C10 witness: an order with two lines of different products of one seller
\* produced one seller message listing both lines
C10_Witness ==
  \E n \in 1..Len(outbox) :
     /\ outbox[n].fn = "sendSellerNotification"
     /\ Len(outbox[n].sends) = 1
     /\ Len(outbox[n].sends[1].items) = 2
     /\ outbox[n].sends[1].items[1].productId # outbox[n].sends[1].items[2].productId

OrderIds == {orders[k].id : k \in 1..Len(orders)}

ConfirmationCalls(orderId) ==
  {k \in 1..Len(outbox) :
     outbox[k].fn = "sendOrderConfirmation" /\ outbox[k].orderId = orderId}

\* C11: notifications are issued only after the commit: every sender call is
\* for an order that is persisted with its stock writes, a committed order gets
\* exactly one customer confirmation, and a checkout that did not commit
\* issues none.
C11_NotifyOnlyAfterCommit ==
  /\ \A n \in 1..Len(outbox) : outbox[n].orderId \in OrderIds
  /\ \A c \in Calls :
        /\ Committed(c) =>
             /\ txOrder[c].id \in OrderIds
             /\ Cardinality(ConfirmationCalls(txOrder[c].id))
                  = (IF pc[c] = "notify" THEN 0 ELSE 1)
        /\ ~Committed(c) =>
             \A n \in 1..Len(outbox) :
                txOrder[c] = NoOrder \/ outbox[n].orderId # txOrder[c].id

\* C11 witness: one checkout committed and was confirmed once while another
\* failed on insufficient stock and issued nothing
C11_Witness ==
  \E c, d \in Calls :
     /\ Committed(c) /\ pc[c] = "done"
     /\ Cardinality(ConfirmationCalls(txOrder[c].id)) = 1
     /\ err[d] = "InsufficientStock"
     /\ Len(outbox) = 2

\* C12: a notification failure never fails the checkout: once the transaction
\* has committed, the call returns the created order.
C12_MailFailureDoesNotFailCheckout ==
  \A c \in Calls : (Committed(c) /\ Finished(c)) => (pc[c] = "done" /\ err[c] = "")

\* C13: a notification failure does not roll back the committed order: the
\* order, its items and the stock writes of the checkout stay persisted.
C13_MailFailureKeepsOrder ==
  [][\A c \in Calls :
       /\ (pc[c] = "notify" /\ pc'[c] = "failed") =>
             /\ orders' = orders
             /\ products' = products
             /\ tx'[c] = "committed"
       /\ \A k \in 1..Len(orders) :
             /\ Len(orders') >= Len(orders)
             /\ orders'[k].id = orders[k].id
             /\ orders'[k].items = orders[k].items]_vars

\* C13 witness: a checkout ended with a failed send; its order and its stock
\* write are in the store
C13_Witness ==
  \E c \in Calls : \E p \in ProductIds :
     /\ err[c] = "MailError" /\ pc[c] = "failed"
     /\ txOrder[c].id \in OrderIds
     /\ Named(c) = {p}
     /\ products[p].stock = SeedStock[p] - SumQty(req[c].items, p)

\* C14: a successful checkout call creates exactly one order, of the calling
\* customer and PENDING; a failed call creates none; the number of orders is
\* the number of successful calls.
C14_OneOrderPerSuccessfulCall ==
  /\ \A c \in Calls :
        /\ pc[c] = "done" =>
             /\ Cardinality({k \in 1..Len(orders) : orders[k].id = txOrder[c].id}) = 1
             /\ txOrder[c].customerId = req[c].customerId
             /\ txOrder[c].status = "PENDING"
        /\ pc[c] = "failed" => (txOrder[c] = NoOrder \/ txOrder[c].id \notin OrderIds)
  /\ (\A c \in Calls : Finished(c))
        => Len(orders) = Cardinality({c \in Calls : pc[c] = "done"})

Malformed(c) ==
  \/ Len(req[c].items) = 0
  \/ \E k \in 1..Len(req[c].items) : req[c].items[k].quantity < 1

\* C17: a customer's checkout with an empty items list or a non-positive
\* quantity is rejected with a validation error before any store access; no
\* order without lines or with a non-positive quantity exists and no stock
\* grows.
C17_MalformedIsRejected ==
  /\ \A c \in Calls :
        (pc[c] # "idle" /\ req[c].role = "CUSTOMER" /\ Malformed(c)) =>
           /\ pc[c] = "failed" /\ err[c] = "ValidationError"
           /\ tx[c] = "none"
           /\ snap[c] = <<>>
           /\ txOrder[c] = NoOrder
           /\ txWrites[c] = <<>>
           /\ \A p \in ProductIds : locks[p] # c
  /\ \A k \in 1..Len(orders) :
        /\ Len(orders[k].items) >= 1
        /\ \A i \in 1..Len(orders[k].items) : orders[k].items[i].quantity >= 1
        /\ orders[k].totalAmount > 0
  /\ \A p \in ProductIds : products[p].stock <= SeedStock[p]

\* C17 witness: a customer's request with a valid entry and an entry of
\* quantity -1 was rejected, and so was one with no items
C17_Witness ==
  \E c, d \in Calls :
     /\ req[c].role = "CUSTOMER" /\ err[c] = "ValidationError"
     /\ Len(req[c].items) = 2
     /\ req[c].items[1].quantity >= 1 /\ req[c].items[1].productId \in ProductIds
     /\ req[c].items[2].quantity = -1
     /\ req[d].role = "CUSTOMER" /\ err[d] = "ValidationError"
     /\ pc[d] = "failed" /\ req[d].items = <<>>

\* an order row without its status
Snapshot(o) == [o EXCEPT !.status = ""]

\* C15: an order is immutable after creation except for its status, and each
\* item's unitPrice is the product's price the checkout read: no updateStatus
\* call, later checkout or price update changes an existing order's customer,
\* shippingAddress, totalAmount or items.
C15_OrderIsFrozen ==
  [][/\ Len(orders') >= Len(orders)
     /\ \A k \in 1..Len(orders) : Snapshot(orders'[k]) = Snapshot(orders[k])
     /\ \A c \in Calls :
          /\ (ReadStep(c) /\ pc'[c] # "failed") =>
                \A p \in Named(c) : snap'[c][p].price = products[p].price
          /\ (txOrder[c] = NoOrder /\ txOrder'[c] # NoOrder) =>
                /\ txOrder'[c].customerId = req[c].customerId
                /\ txOrder'[c].shippingAddress = req[c].shippingAddress
                /\ Len(txOrder'[c].items) = Len(req[c].items)
                /\ \A i \in 1..Len(req[c].items) :
                     /\ txOrder'[c].items[i].productId = req[c].items[i].productId
                     /\ txOrder'[c].items[i].quantity = req[c].items[i].quantity
                     /\ txOrder'[c].items[i].unitPrice =
                          snap[c][req[c].items[i].productId].price
          /\ (tx[c] = "open" /\ tx'[c] = "committed") =>
                orders' = Append(orders, txOrder[c])]_vars

\* C15 witness: an order bought a product at its seeded price, the seller then
\* changed the price, a later checkout bought it at the new price, and the
\* status of the first order was updated: the first order keeps the old price
C15_Witness ==
  /\ Len(orders) = 2
  /\ orders[1].status # "PENDING"
  /\ \E i \in 1..Len(orders[1].items), j \in 1..Len(orders[2].items) :
       LET p == orders[1].items[i].productId
       IN /\ orders[2].items[j].productId = p
          /\ orders[1].items[i].unitPrice = SeedPrice[p]
          /\ products[p].price # SeedPrice[p]
          /\ orders[2].items[j].unitPrice = products[p].price
          /\ orders[1].totalAmount = SumLines(orders[1].items)

\* the sellers of the items of the committed orders with that id, by the
\* seller recorded with each item at checkout
OwnersOf(orderId) ==
  UNION {{orders[k].items[i].sellerId : i \in 1..Len(orders[k].items)} :
           k \in {n \in 1..Len(orders) : orders[n].id = orderId}}

\* C18: updateStatus changes an order's status only for a caller with the
\* SELLER role who sells at least one item of that order; a customer and a
\* seller owning no item of the order get Forbidden, an unknown order id gets
\* NotFound, and every rejected call leaves the orders as they were.
C18_OnlyOwningSellerUpdates ==
  [][/\ statusCall' # statusCall =>
          LET call == statusCall'
          IN /\ call.role = "CUSTOMER" => call.err = "Forbidden"
             /\ (call.role = "SELLER" /\ call.orderId \notin OrderIds) =>
                   call.err = "NotFound"
             /\ (call.role = "SELLER" /\ call.orderId \in OrderIds
                   /\ call.sellerId \notin OwnersOf(call.orderId)) =>
                   call.err = "Forbidden"
             /\ call.err # "" => orders' = orders
     /\ \A k \in 1..Len(orders) :
          orders'[k].status # orders[k].status =>
             /\ statusCall'.err = ""
             /\ statusCall'.orderId = orders[k].id
             /\ statusCall'.role = "SELLER"
             /\ statusCall'.sellerId \in OwnersOf(orders[k].id)]_vars

\* C18 witness: a seller who sells an item of an order updated its status,
\* and then a seller who sells none of its items was rejected with Forbidden
C18_Witness ==
  /\ statusCall.fn = "updateStatus"
  /\ statusCall.role = "SELLER"
  /\ statusCall.err = "Forbidden"
  /\ \E k \in 1..Len(orders) :
       /\ orders[k].id = statusCall.orderId
       /\ orders[k].status = "SHIPPED"
       /\ statusCall.status # "SHIPPED"
       /\ OwnersOf(orders[k].id) = SellerIds \ {statusCall.sellerId}

\* C19: status transitions are not validated: updateStatus by a seller of an
\* item of the order succeeds and sets the requested status whatever the
\* current status is, skipping steps and moving backward included.
C19_AnyTransitionIsAccepted ==
  [][statusCall' # statusCall =>
       \A k \in 1..Len(orders), current, requested \in OrderStatuses :
          (/\ orders[k].id = statusCall'.orderId
           /\ statusCall'.role = "SELLER"
           /\ statusCall'.sellerId \in OwnersOf(orders[k].id)
           /\ orders[k].status = current
           /\ statusCall'.status = requested) =>
             /\ statusCall'.err = ""
             /\ orders'[k].status = requested]_vars

\* C19 witness: the one status update made so far took an order from PENDING
\* straight to DELIVERED
C19_Witness ==
  /\ maintCalls = 1
  /\ statusCall.fn = "updateStatus"
  /\ statusCall.err = ""
  /\ statusCall.status = "DELIVERED"
  /\ \E k \in 1..Len(orders) :
       orders[k].id = statusCall.orderId /\ orders[k].status = "DELIVERED"

\* the refresh token most recently signed for a user
Latest(u) ==
  CHOOSE t \in issued : t.sub = u /\ \A o \in issued : o.sub = u => o.jti <= t.jti

\* C20: refresh tokens rotate: a successful refreshToken call returns a new
\* refresh token different from the presented one, and the presented one was
\* the most recently issued token of its user, so a second refresh with a
\* token presented before fails with Unauthorized.
C20_OnlyLatestTokenIsAccepted ==
  [][/\ \A k \in RefreshCalls :
          (refresh[k].pc = "idle" /\ refresh'[k].pc = "rotate") =>
             refresh'[k].token = Latest(refresh'[k].token.sub)
     /\ (authCall' # authCall /\ authCall'.fn = "refreshToken"
           /\ authCall'.err = "") =>
          /\ authCall'.returned # authCall'.presented
          /\ authCall'.returned \notin issued]_vars

\* the lower-case texts of EmailTexts
LowerEmails == {"shopper@teahaven.dev", "new@teahaven.dev", "guest@teahaven.dev"}

\* the emails of all rows of "users", seeded and registered
StoredEmails(rows) ==
  [u \in 1..(Cardinality(UserIds) + Len(rows)) |->
     IF u \in UserIds THEN Email[u] ELSE rows[u - Cardinality(UserIds)].email]

\* C21: register with an email whose trimmed, lower-cased form is already
\* registered fails with Conflict and creates no user, and under every
\* interleaving of register calls no two users share a normalized email.
C21_OneUserPerEmail ==
  [][/\ \A u, v \in DOMAIN StoredEmails(registered') :
          StoredEmails(registered')[u] = StoredEmails(registered')[v] => u = v
     /\ \A k \in 1..Len(registered') : registered'[k].email \in LowerEmails
     /\ \A r \in RegCalls :
          /\ (reg[r].pc = "idle" /\ reg'[r].pc # "idle") =>
                /\ registered' = registered
                /\ reg'[r].email \in LowerEmails
                /\ (\E u \in DOMAIN StoredEmails(registered) :
                       StoredEmails(registered)[u] = reg'[r].email)
                     <=> (reg'[r].pc = "failed" /\ reg'[r].err = "Conflict")
          /\ reg[r].pc = "failed" => reg'[r] = reg[r]
     /\ registered' # registered =>
          \E r \in RegCalls :
             /\ reg[r].pc = "create" /\ reg'[r].pc = "tokens"
             /\ registered' = Append(registered, [email |-> reg[r].email])]_vars

\* C21 witness: one register call inserted the user of an email, and a later
\* call with the same normalized email was rejected with Conflict
C21_Witness ==
  \E r1, r2 \in RegCalls :
     /\ reg[r1].pc = "done"
     /\ reg[r2].pc = "failed" /\ reg[r2].err = "Conflict"
     /\ reg[r2].email = reg[r1].email
     /\ Len(registered) = 1

\* the calls that issue a refresh token to a user anew
IssuingCalls == {"login", "register", "changePassword"}

\* C28: after logout for a user (no hash stored, tokens issued before), every
\* refresh token of that user is rejected with Unauthorized until a login,
\* register or changePassword stores a new one; a rejected refresh changes
\* no stored state.
C28_LogoutRevokesRefreshTokens ==
  [][/\ \A u \in UserIds :
          (refreshHash[u] = NullHash /\ \E t \in issued : t.sub = u) =>
             /\ \A k \in RefreshCalls :
                  (refresh[k].pc = "idle" /\ refresh'[k].pc # "idle"
                     /\ refresh'[k].token.sub = u) =>
                       /\ refresh'[k].pc = "failed"
                       /\ authCall'.err = "Unauthorized"
             /\ refreshHash'[u] # NullHash =>
                  /\ authCall' # authCall
                  /\ authCall'.fn \in IssuingCalls
                  /\ authCall'.user = u
     /\ \A k \in RefreshCalls :
          (refresh[k].pc = "idle" /\ refresh'[k].pc = "failed") =>
             (refreshHash' = refreshHash /\ issued' = issued
                /\ registered' = registered)]_vars

\* ----- C22 -------------------------------------------------------------------

\* a committed checkout wrote stock 0 on product p
ZeroedByCheckout(p) ==
  \E d \in Calls :
     /\ tx[d] = "committed"
     /\ \E k \in 1..Len(txWrites[d]) :
          txWrites[d][k].id = p /\ txWrites[d][k].row.stock = 0

\* C22: ProductsService.updateStock called by the seller who owns the product
\* succeeds, sets the product's stock to the given value and its isActive to
\* (stock > 0), and changes no other product: a stock of 0 deactivates the
\* product and a positive stock reactivates a deactivated one.
C22_UpdateStockSetsStockAndActive ==
  [][(/\ statusCall' # statusCall
      /\ statusCall'.fn = "updateStock"
      /\ statusCall'.role = "SELLER"
      /\ statusCall'.productId \in ProductIds
      /\ products[statusCall'.productId].sellerId = statusCall'.sellerId)
     => LET p == statusCall'.productId
        IN /\ statusCall'.err = ""
           /\ products'[p].stock = statusCall'.stock
           /\ products'[p].isActive = (statusCall'.stock > 0)
           /\ products'[p].price = products[p].price
           /\ \A q \in ProductIds \ {p} : products'[q] = products[q]]_vars

\* a product that a checkout sold out and deactivated is active again with
\* the stock its seller set through updateStock
C22_Witness ==
  /\ statusCall.fn = "updateStock"
  /\ statusCall.err = ""
  /\ statusCall.stock > 0
  /\ ZeroedByCheckout(statusCall.productId)
  /\ products[statusCall.productId].stock = statusCall.stock
  /\ products[statusCall.productId].isActive

\* ----- C23 -------------------------------------------------------------------

\* the step is a checkout's commit, an updateStock call, an update whose body
\* carries a stock, or a create
StockChangingStep ==
  \/ \E c \in Calls : tx[c] = "open" /\ tx'[c] = "committed"
  \/ statusCall' # statusCall /\ statusCall'.fn = "updateStock"
  \/ UpdateProductWith({dto \in StockDtos : "stock" \in dto.fields}, MaxStockCalls)
  \/ created' # created

\* C23: after a checkout, an updateStock, an update with a stock field or a
\* create, every product row the operation wrote or inserted has
\* isActive = (stock > 0).
C23_ActiveIffInStock ==
  [][StockChangingStep
     => /\ \A p \in ProductIds :
             products'[p] # products[p]
             => products'[p].isActive = (products'[p].stock > 0)
        /\ \A k \in 1..Len(created') :
             k > Len(created)
             => created'[k].isActive = (created'[k].stock > 0)]_vars

\* ----- C24 -------------------------------------------------------------------

\* call c has a stock write for product p in its transaction
Writes(c, p) == \E k \in 1..Len(txWrites[c]) : txWrites[c][k].id = p

\* the last seller call was a successful updateStock on p, its value is the
\* stock of the committed row and covers the quantity call c asks for
SellerSetStock(c, p) ==
  /\ statusCall.fn = "updateStock"
  /\ statusCall.err = ""
  /\ statusCall.seq = maintCalls
  /\ statusCall.productId = p
  /\ products[p].stock = statusCall.stock
  /\ statusCall.stock >= QuantityOf(req[c].items, p)

\* C24: when a checkout commits its stock write on a product whose committed
\* stock is the value the seller set through updateStock (and no other
\* checkout has written that product), the stock after the commit is the
\* seller's value minus the checkout's quantity, also when the seller's call
\* committed after the checkout read the product.
C24_SellerEditIsNotLost ==
  [][\A c \in Calls, p \in ProductIds :
        (/\ tx[c] = "open"
         /\ tx'[c] = "committed"
         /\ Writes(c, p)
         /\ SellerSetStock(c, p)
         /\ \A d \in Calls \ {c} : ~(tx[d] = "committed" /\ Writes(d, p)))
        => products'[p].stock = statusCall.stock - QuantityOf(req[c].items, p)]_vars

\* ----- C27 -------------------------------------------------------------------

\* a checkout reduced the stock of p to 0 and no seller has set a positive
\* stock on p
SoldOut(p) == ZeroedByCheckout(p) /\ p \notin restocked

\* C27: a product whose stock a checkout reduced to 0 is inactive and absent
\* from findAll for as long as no seller has set a positive stock on it, and a
\* checkout that loads its products in that time and names the product fails
\* with NotFound and changes no stock.
C27_SoldOutStaysUnavailable ==
  [][\A p \in ProductIds :
        /\ SoldOut(p)' => ~products'[p].isActive /\ p \notin FindAll(products')
        /\ \A c \in Calls :
             (/\ SoldOut(p)
              /\ pc[c] = "read"
              /\ pc'[c] # "read"
              /\ QuantityOf(req[c].items, p) > 0)
             => err'[c] = "NotFound" /\ products' = products]_vars

\* ----- C25 -------------------------------------------------------------------

\* C25: the order a successful checkout commits has one order item per entry
\* of the request, in the order of the request and with the entry's product
\* and quantity (entries of one product stay separate lines), and for every
\* product named the quantities of its lines sum to the amount the checkout
\* took off the stock it read.
C25_OneLinePerEntry ==
  [][\A c \in Calls :
       (tx[c] = "open" /\ tx'[c] = "committed") =>
          LET lines == orders'[Len(orders')].items
              items == req[c].items
          IN /\ Len(orders') = Len(orders) + 1
             /\ Len(lines) = Len(items)
             /\ \A k \in 1..Len(items) :
                  /\ lines[k].productId = items[k].productId
                  /\ lines[k].quantity = items[k].quantity
             /\ \A p \in Named(c) :
                  SumQty(lines, p) = snap[c][p].stock - products'[p].stock]_vars

\* C25 witness: a committed order has two lines of one product, and the stock
\* of that product went down by the sum of the two
C25_Witness ==
  \E c \in Calls : \E k \in 1..Len(orders) :
     /\ Committed(c)
     /\ orders[k].id = txOrder[c].id
     /\ Len(orders[k].items) = 2
     /\ orders[k].items[1].productId = orders[k].items[2].productId
     /\ LET p == orders[k].items[1].productId
        IN products[p].stock = SeedStock[p] - orders[k].items[1].quantity
                                            - orders[k].items[2].quantity

\* ----- C26 -------------------------------------------------------------------

\* C26: the committed rows change only at the commit of a checkout, which adds
\* the call's order and applies the stock write of every product it names in
\* the same step; a checkout abandoned before its commit changes no committed
\* row, and the committed orders are at all times exactly the orders of the
\* committed calls.
C26_OrderAndStockAreAtomic ==
  [][/\ \A c \in Calls :
          /\ (tx[c] = "open" /\ tx'[c] = "committed") =>
                /\ orders' = Append(orders, txOrder[c])
                /\ \A p \in Named(c) :
                     products'[p].stock = snap[c][p].stock - SumQty(req[c].items, p)
          /\ (tx[c] = "open" /\ tx'[c] = "rolledback") =>
                orders' = orders /\ products' = products
     /\ (orders' # orders \/ products' # products) =>
          \E c \in Calls : tx[c] = "open" /\ tx'[c] = "committed"
     /\ {orders'[k].id : k \in 1..Len(orders')}
          = {txOrder'[c].id : c \in {d \in Calls : tx'[d] = "committed"}}
     /\ Len(orders') = Cardinality({d \in Calls : tx'[d] = "committed"})]_vars

\* C26 witness: one checkout was abandoned after its order insert and left no
\* row, beside a committed checkout of two products whose order and both
\* stock writes are there
C26_Witness ==
  \E c, d \in Calls :
     /\ pc[c] = "failed" /\ err[c] = "TransactionError"
     /\ Committed(d) /\ Cardinality(Named(d)) = 2
     /\ nextOrderId = 3
     /\ Len(orders) = 1
     /\ orders[1].id = txOrder[d].id
     /\ \A p \in ProductIds : products[p].stock = SeedStock[p] - 1

\* ----- C29 -------------------------------------------------------------------

\* C29: at most one POST /auth/refresh is in flight at any time; a request
\* answered with 401 while one is in flight starts no other and awaits that
\* one; a request that awaited a refresh continues with the result of that
\* refresh, is sent again exactly when the result is a token, and is never
\* sent more than twice; and a refresh that fails leaves no tokens and no user.
C29_RefreshIsSingleFlight ==
  [][/\ Cardinality(inFlight') <= 1
     /\ \A r \in Requests :
          /\ requests'[r].sends <= 2
          /\ (requests[r].pc = "sent" /\ requests'[r].pc = "waiting" /\ inFlight # {})
                => /\ inFlight' = inFlight
                   /\ requests'[r].awaits \in inFlight
          /\ (requests[r].pc = "waiting" /\ requests'[r].pc # "waiting")
                => LET result == promises[requests[r].awaits].value
                   IN /\ requests'[r].got = result
                      /\ (requests'[r].pc = "sent") = (result # 0)
                      /\ (requests'[r].pc = "failed") = (result = 0)
     /\ \A n \in inFlight \ inFlight' :
          promises'[n].value = 0 => authState' = NoSession /\ authRefs' = NoSession]_vars

\* C29 witness: two requests were answered with 401, awaited the one refresh
\* that was made, got its token and were each sent a second time
C29_Witness ==
  \E r1, r2 \in Requests :
     /\ r1 # r2
     /\ Len(promises) = 1
     /\ requests[r1].awaits = 1 /\ requests[r2].awaits = 1
     /\ requests[r1].got = promises[1].value /\ requests[r2].got = promises[1].value
     /\ promises[1].value # 0
     /\ requests[r1].sends = 2 /\ requests[r2].sends = 2

\* ----- C30 -------------------------------------------------------------------

\* no product id twice and every quantity at least 1
UniqueAndPositive(items) ==
  /\ \A j, k \in 1..Len(items) : j # k => items[j].productId # items[k].productId
  /\ \A k \in 1..Len(items) : items[k].quantity >= 1

\* C30: from the empty cart, after every dispatched action the cart and the
\* order payload built from it name each product at most once with a
\* quantity of at least 1, and an UPDATE with a quantity of 0 or less leaves
\* the cart a REMOVE of that product would leave.
C30_CartItemsAreUniqueAndPositive ==
  [][/\ UniqueAndPositive(cart')
     /\ \A address \in Addresses :
          /\ UniqueAndPositive(ToOrderPayload(cart', address).items)
          /\ Len(ToOrderPayload(cart', address).items) = Len(cart')
     /\ (cartAction'.type = "UPDATE" /\ cartAction'.quantity <= 0)
          => /\ cart' = CartReducer(cart, [type |-> "REMOVE",
                                           productId |-> cartAction'.productId,
                                           quantity |-> 0])
             /\ Existing(cart', cartAction'.productId) = {}]_vars

\* C30 witness: the last action was an UPDATE with a quantity of 0 or less, and
\* the cart holds the other product with a quantity that UPSERTs added up
C30_Witness ==
  /\ cartAction.type = "UPDATE"
  /\ cartAction.quantity <= 0
  /\ Len(cart) = 1
  /\ cart[1].productId # cartAction.productId
  /\ cart[1].quantity > 1


====
